---- MODULE Spec2Model ----
(***************************************************************************)
(* Model of src/interpolation.py: the neighbour analysis, the mask filler  *)
(* (extend_into_mask) and the discard-and-fill loop (discard_and_fill).    *)
(*                                                                         *)
(* A field is a numpy array of shape (nz, ny, nx); it is modelled as a     *)
(* function from the cells <<k, j, i>> of that shape to exact rationals    *)
(* <<numerator, denominator>> in lowest terms (float64 rounding is not     *)
(* modelled).  The caller's array is the variable "data": every in-place   *)
(* assignment of the code is an assignment to it.                          *)
(***************************************************************************)
EXTENDS Integers, FiniteSets, Sequences, TLC

\* ---------------------------------------------------------------- bounds
\* Largest number of cells of an input field (all shapes nz*ny*nx up to it).
MaxCells == 4
\* Input values are the integers -MaxVal..MaxVal and the default sentinel.
MaxVal == 1
\* Largest num_iters passed to extend_into_mask.
MaxIters == 2

\* Longest axis passed to interp_slice_helper.
MaxAxisLen == 3
\* Axis samples of interp_slice_helper are the integers -MaxAxisVal..MaxAxisVal
\* and the longitudes -179 and 179; targets lie on the half steps around them.
MaxAxisVal == 2

\* Longest source axis of interp_reg (the shortest has two samples).
MaxRegLen == 3

\* Largest number of cells of a field passed to interp_grid.
MaxGridCells == 3

\* Largest number of cells of the fields of two compared calls of
\* discard_and_fill.
MaxPairCells == 3

\* Number of samples of the source x axis of interp_topo (the y axis has one
\* more); RectBivariateSpline of the default degree 3 needs four.
MaxSourceLen == 4
\* Largest n_subgrid passed to interp_topo.
MaxSubgrid == 2

\* ------------------------------------------------------- program constants
\* Default of the missing_val keyword (extend_into_mask, neighbours, ...).
DefaultMissingVal == -9999
\* The period of longitude in lines 276 and 279.
LonPeriod == 360
\* Default of the mask_val keyword of remove_isolated_cells.
DefaultMaskVal == 0

\* -------------------------------------------------------------- rationals
RECURSIVE GCD(_, _)
GCD(a, b) == IF b = 0 THEN a ELSE GCD(b, a % b)

Abs(n) == IF n < 0 THEN -n ELSE n

\* n/d in lowest terms, d > 0
Norm(n, d) == LET g == GCD(Abs(n), d) IN <<n \div g, d \div g>>

Rat(n) == <<n, 1>>

RAdd(a, b) == Norm(a[1] * b[2] + b[1] * a[2], a[2] * b[2])

\* a * k for an integer k (the 0/1 validity flags)
RTimes(a, k) == Norm(a[1] * k, a[2])

\* a / k for an integer k > 0 (a count of valid neighbours)
ROver(a, k) == Norm(a[1], a[2] * k)

RSub(a, b) == Norm(a[1] * b[2] - b[1] * a[2], a[2] * b[2])

RMul(a, b) == Norm(a[1] * b[1], a[2] * b[2])

\* a / b for b # 0
RDiv(a, b) ==
    IF b[1] > 0 THEN Norm(a[1] * b[2], a[2] * b[1]) ELSE Norm(-(a[1] * b[2]), -(a[2] * b[1]))

RNeg(a) == <<-a[1], a[2]>>

\* a < b, a > b
RLess(a, b) == a[1] * b[2] < b[1] * a[2]
RGreater(a, b) == RLess(b, a)

\* ------------------------------------------------------------------ grids
CellsOf(shape) ==
    {<<k, j, i>> : k \in 0 .. shape[1] - 1, j \in 0 .. shape[2] - 1, i \in 0 .. shape[3] - 1}

\* All array shapes (nz, ny, nx) with at most MaxCells cells.
Shapes ==
    {s \in (1 .. MaxCells) \X (1 .. MaxCells) \X (1 .. MaxCells) : s[1] * s[2] * s[3] <= MaxCells}

\* The values an input cell may hold.
Vals == {Rat(v) : v \in (-MaxVal .. MaxVal) \cup {DefaultMissingVal}}

\* The sentinels a caller passes: the default, and 0 (forcing.py passes missing_val=0).
MissingVals == {Rat(DefaultMissingVal), Rat(0)}

\* Input fields: every array of the shape over Vals.
Fields(shape) == [CellsOf(shape) -> Vals]

\* A MaskedArray input has its mask set on the cells whose buffer holds this
\* value (what the buffer holds under the mask is arbitrary to the code).
MaskedSample == Rat(1)

Flag(b) == IF b THEN 1 ELSE 0

\* -------------------------------------------------------------- neighbours
\* A plausible slip in lines 79-90: the shifts taken periodically (as np.roll
\* does) instead of copying the boundary.
neighbours_Rolled(data, shape, missing_val) ==
    LET C == CellsOf(shape)
        data_w == [c \in C |-> data[<<c[1], c[2], (c[3] - 1) % shape[3]>>]]
        data_e == [c \in C |-> data[<<c[1], c[2], (c[3] + 1) % shape[3]>>]]
        data_s == [c \in C |-> data[<<c[1], (c[2] - 1) % shape[2], c[3]>>]]
        data_n == [c \in C |-> data[<<c[1], (c[2] + 1) % shape[2], c[3]>>]]
        valid_w == [c \in C |-> Flag(data_w[c] # missing_val)]
        valid_e == [c \in C |-> Flag(data_e[c] # missing_val)]
        valid_s == [c \in C |-> Flag(data_s[c] # missing_val)]
        valid_n == [c \in C |-> Flag(data_n[c] # missing_val)]
        num_valid_neighbours == [c \in C |-> valid_w[c] + valid_e[c] + valid_s[c] + valid_n[c]]
    IN  <<data_w, data_e, data_s, data_n, valid_w, valid_e, valid_s, valid_n, num_valid_neighbours>>

\* neighbours(data, missing_val): the tuple the function returns, in its order:
\* data_w, data_e, data_s, data_n, valid_w, valid_e, valid_s, valid_n,
\* num_valid_neighbours.  The last array axis is x (west/east), the one before
\* it is y (south/north); boundary cells copy their own value.
neighbours(data, shape, missing_val) ==
    LET C == CellsOf(shape)
        data_w == [c \in C |-> IF c[3] >= 1 THEN data[<<c[1], c[2], c[3] - 1>>] ELSE data[c]]
        data_e == [c \in C |-> IF c[3] <= shape[3] - 2 THEN data[<<c[1], c[2], c[3] + 1>>] ELSE data[c]]
        data_s == [c \in C |-> IF c[2] >= 1 THEN data[<<c[1], c[2] - 1, c[3]>>] ELSE data[c]]
        data_n == [c \in C |-> IF c[2] <= shape[2] - 2 THEN data[<<c[1], c[2] + 1, c[3]>>] ELSE data[c]]
        valid_w == [c \in C |-> Flag(data_w[c] # missing_val)]
        valid_e == [c \in C |-> Flag(data_e[c] # missing_val)]
        valid_s == [c \in C |-> Flag(data_s[c] # missing_val)]
        valid_n == [c \in C |-> Flag(data_n[c] # missing_val)]
        num_valid_neighbours == [c \in C |-> valid_w[c] + valid_e[c] + valid_s[c] + valid_n[c]]
    IN  <<data_w, data_e, data_s, data_n, valid_w, valid_e, valid_s, valid_n, num_valid_neighbours>>

\* neighbours_z(data, missing_val): data_u, data_d, valid_u, valid_d,
\* num_valid_neighbours_z, along the third-last axis.
neighbours_z(data, shape, missing_val) ==
    LET C == CellsOf(shape)
        data_u == [c \in C |-> IF c[1] >= 1 THEN data[<<c[1] - 1, c[2], c[3]>>] ELSE data[c]]
        data_d == [c \in C |-> IF c[1] <= shape[1] - 2 THEN data[<<c[1] + 1, c[2], c[3]>>] ELSE data[c]]
        valid_u == [c \in C |-> Flag(data_u[c] # missing_val)]
        valid_d == [c \in C |-> Flag(data_d[c] # missing_val)]
        num_valid_neighbours_z == [c \in C |-> valid_u[c] + valid_d[c]]
    IN  <<data_u, data_d, valid_u, valid_d, num_valid_neighbours_z>>

\* -------------------------------------------------------- extend_into_mask
\* A plausible slip in line 137: the test for a missing point left out.
FillIndex_AnyPoint(data, num_valid_neighbours, missing_val, c) ==
    num_valid_neighbours[c] > 0

\* Line 137: the points that can be filled from the horizontal neighbours.
FillIndex(data, num_valid_neighbours, missing_val, c) ==
    data[c] = missing_val /\ num_valid_neighbours[c] > 0

\* A plausible slip in line 139: the validity weights left out of the sum.
HorizontalMean_Unweighted(nb, c) ==
    ROver(RAdd(RAdd(RAdd(nb[1][c], nb[2][c]), nb[3][c]), nb[4][c]), nb[9][c])

\* Line 139, right-hand side at cell c; nb is the tuple neighbours returned.
HorizontalMean(nb, c) ==
    ROver(RAdd(RAdd(RAdd(RTimes(nb[1][c], nb[5][c]), RTimes(nb[2][c], nb[6][c])),
                    RTimes(nb[3][c], nb[7][c])),
               RTimes(nb[4][c], nb[8][c])),
          nb[9][c])

\* Lines 135-139: data after the horizontal fill of one iteration.
HorizontalFill(data, shape, missing_val) ==
    LET nb == neighbours(data, shape, missing_val)
    IN  [c \in CellsOf(shape) |->
            IF FillIndex(data, nb[9], missing_val, c) THEN HorizontalMean(nb, c) ELSE data[c]]

\* Line 144: the points not filled from 2D neighbours that can be filled now.
FillIndexZ(data, num_valid_neighbours, num_valid_neighbours_z, missing_val, c) ==
    data[c] = missing_val /\ num_valid_neighbours[c] = 0 /\ num_valid_neighbours_z[c] > 0

\* A plausible slip in line 145: the sum halved whatever the count is.
VerticalMean_Halved(nz, c) ==
    ROver(RAdd(RTimes(nz[2][c], nz[4][c]), RTimes(nz[1][c], nz[3][c])), 2)

\* Line 145, right-hand side at cell c.  Line 142 unpacks the tuple of
\* neighbours_z as data_d, data_u, valid_d, valid_u: the names are swapped
\* against the returned order, each value staying with its own flag.
VerticalMean(nz, c) ==
    LET data_d == nz[1]
        data_u == nz[2]
        valid_d == nz[3]
        valid_u == nz[4]
    IN  ROver(RAdd(RTimes(data_u[c], valid_u[c]), RTimes(data_d[c], valid_d[c])), nz[5][c])

\* Lines 142-145: data after the vertical fill; num_valid_neighbours is the
\* count line 135 computed before the horizontal fill.
VerticalFill(data, shape, num_valid_neighbours, missing_val) ==
    LET nz == neighbours_z(data, shape, missing_val)
    IN  [c \in CellsOf(shape) |->
            IF FillIndexZ(data, num_valid_neighbours, nz[5], missing_val, c)
            THEN VerticalMean(nz, c) ELSE data[c]]

\* A plausible slip in line 122: the comparison with the default inverted.
ConflictingArgs_Inverted(mv, msk) == mv = Rat(DefaultMissingVal) /\ msk

\* Line 122: a sentinel other than the default given together with masked=True.
ConflictingArgs(mv, msk) == mv # Rat(DefaultMissingVal) /\ msk

\* Lines 135-145: one pass of the loop body.
Iteration(data, shape, missing_val, use_3d) ==
    LET num_valid_neighbours == neighbours(data, shape, missing_val)[9]
        filled == HorizontalFill(data, shape, missing_val)
    IN  IF use_3d THEN VerticalFill(filled, shape, num_valid_neighbours, missing_val)
        ELSE filled

\* extend_into_mask(data, missing_val, masked=False, use_3d, num_iters): the
\* array after the call (lines 133-151; the masked branches are not taken).
RECURSIVE extend_into_mask(_, _, _, _, _)
extend_into_mask(data, shape, missing_val, use_3d, num_iters) ==
    IF num_iters = 0 THEN data
    ELSE extend_into_mask(Iteration(data, shape, missing_val, use_3d), shape,
                          missing_val, use_3d, num_iters - 1)

\* -------------------------------------------------- remove_isolated_cells
\* The values mask_val takes: the default (land in an ocean mask) and 1.
MaskVals == {Rat(DefaultMaskVal), Rat(1)}

\* Line 209: the cells to remove.
IsolatedIndex(data, num_valid_neighbours, mask_val, c) ==
    data[c] # mask_val /\ num_valid_neighbours[c] = 0

\* ------------------------------------------------------- discard_and_fill
\* Lines 254, 259: np.count_nonzero((data==missing_val)*fill).
CountMissing(data, fill, missing_val) ==
    Cardinality({c \in fill : data[c] = missing_val})

\* A plausible slip in lines 254, 259: the product taken in place (fill *= ...).
FillOperand_InPlace(data, fill, missing_val) == {c \in fill : data[c] = missing_val}

\* Lines 254, 259: (data==missing_val)*fill builds a new array; the argument
\* fill is an operand only and stays as it was.
FillOperand(data, fill, missing_val) == fill

\* A plausible slip in line 252: the discard step left out.
Discard_Skipped(data, discard, missing_val) == data

\* Line 252: data[discard] = missing_val.
Discard(data, discard, missing_val) ==
    [c \in DOMAIN data |-> IF c \in discard THEN missing_val ELSE data[c]]

\* A plausible slip in line 255: the loop stopping one point early.
PointsToFill_OffByOne(n) == n > 1

\* Line 255: the while condition.
PointsToFill(n) == n > 0

\* A plausible slip in line 260: only a growing count taken as no progress.
NoProgress_OnlyGrowth(n, n_old) == n > n_old

\* Line 260: the count of points to fill did not change.
NoProgress(n, n_old) == n = n_old

\* The value a valid cell of a discard_and_fill input holds: it differs
\* between neighbours in every direction.
SampleValue(c) == Rat(c[3] + 2 * c[2] - c[1] - 1)

\* Inputs of discard_and_fill: any set of cells missing, the others valid.
SampleFields(shape, missing_val) ==
    {[c \in CellsOf(shape) |-> IF c \in M THEN missing_val ELSE SampleValue(c)] :
        M \in SUBSET CellsOf(shape)}

\* A value no field of SampleFields holds, for the discarded cells of a
\* second field.
OtherValue == Rat(7)

\* ---------------------------------------------------- interp_slice_helper
\* Axes are 1D arrays, modelled as sequences; the code's index k (from 0) is
\* position k + 1 of the sequence.
At(data, k) == data[k + 1]

\* Monotonically increasing axes (line 266) of 1..MaxAxisLen samples.
AxisSamples == {Rat(v) : v \in (-MaxAxisVal .. MaxAxisVal) \cup {-179, 179}}

AxisSeqs ==
    {a \in UNION {[1 .. n -> AxisSamples] : n \in 1 .. MaxAxisLen} :
        \A k \in 1 .. Len(a) - 1 : RLess(a[k], a[k + 1])}

\* Targets: the half steps from -(MaxAxisVal+1) to MaxAxisVal+1, the same one
\* period lower and higher, and the half steps about the longitudes +-180.
Targets ==
    {RAdd(<<h, 2>>, Rat(o * LonPeriod)) :
        h \in -(2 * MaxAxisVal + 2) .. (2 * MaxAxisVal + 2), o \in {-1, 0, 1}}
    \cup {Norm(s * h, 2) : h \in 357 .. 363, s \in {-1, 1}}

\* Line 271: np.nonzero(data > val0)[0], the indices of the samples above val0.
NonzeroGreater(data, val0) == {k \in 0 .. Len(data) - 1 : RGreater(At(data, k), val0)}

\* Line 271: ...[0], the first of them.
First(S) == CHOOSE k \in S : \A j \in S : k <= j

\* A plausible slip in line 286: the distance taken from the upper sample.
Weight_FromUpper(data, val0, i1, i2) ==
    RDiv(RSub(At(data, i2), val0), RSub(At(data, i2), At(data, i1)))

\* Line 286: c2 in the general case.
Weight(data, val0, i1, i2) ==
    RDiv(RSub(val0, At(data, i1)), RSub(At(data, i2), At(data, i1)))

\* Line 276: the test of the wraparound case (i2 == 0 holds when it is reached).
WrapTest(data, val0, lon, i2) ==
    lon /\ i2 = 0 /\ RLess(RSub(At(data, Len(data) - 1), Rat(LonPeriod)), val0)

\* A plausible slip in line 279: the last sample not shifted in the numerator.
WrapWeight_UnshiftedTarget(data, val0, i1, i2) ==
    RDiv(RSub(val0, At(data, i1)),
         RSub(At(data, i2), RSub(At(data, i1), Rat(LonPeriod))))

\* Line 279: c2 in the wraparound case.
WrapWeight(data, val0, i1, i2) ==
    RDiv(RSub(val0, RSub(At(data, i1), Rat(LonPeriod))),
         RSub(At(data, i2), RSub(At(data, i1), Rat(LonPeriod))))

\* ------------------------------------------------------------- interp_reg
\* A regular axis of n samples one unit apart, starting at o.
RegAxis(o, n) == [k \in 1 .. n |-> Rat(o + k - 1)]

\* The axes get_lon_lat(gtype, dim=1) and .z give for the source grid:
\* latitudes from 0, longitudes from 1, heights from -2 downwards.
SourceLats == {RegAxis(0, n) : n \in 2 .. MaxRegLen}
SourceLons == {RegAxis(1, n) : n \in 2 .. MaxRegLen}
SourceZs == {[k \in 1 .. n |-> Rat(-(k + 1))] : n \in 2 .. MaxRegLen}

\* A source field: a different value at every grid point.
SourceSample(idx) ==
    IF Len(idx) = 2 THEN Rat(idx[1] + 2 * idx[2]) ELSE Rat(idx[2] + 2 * idx[3] + 5 * idx[1])

\* Coordinates a target axis may hold: below, on, between and above the
\* samples of the source axes.
TargetCoords == {Rat(v) : v \in -1 .. MaxRegLen + 1} \cup {<<1, 2>>, <<3, 2>>}

\* Target axes of one sample, and of one or two samples for the longitude.
TargetLats == {<<y>> : y \in TargetCoords}
TargetLons ==
    {<<x>> : x \in TargetCoords}
    \cup {a \in TargetCoords \X TargetCoords : RLess(a[1], a[2])}
TargetZs == {<<RNeg(z)>> : z \in TargetCoords}

\* The values of the dim keyword, and the fill values (the default, and the
\* fill_value=1 of forcing.py line 150).
Dims == 1 .. 4
FillValues == {Rat(DefaultMissingVal), Rat(1)}

\* Lines 224, 226: RegularGridInterpolator(points, values, bounds_error=False,
\* fill_value=fill_value), the library's linear interpolant: a point with a
\* coordinate below the first or above the last sample of its axis gets
\* fill_value, every other point the multilinear blend of the corners of its cell.
FindIndex(grid, x) ==
    LET below == Cardinality({k \in 1 .. Len(grid) : RLess(grid[k], x)})
    IN  IF below - 1 < 1 THEN 1
        ELSE IF below - 1 > Len(grid) - 1 THEN Len(grid) - 1
        ELSE below

NormDist(grid, x, i) == RDiv(RSub(x, grid[i]), RSub(grid[i + 1], grid[i]))

RECURSIVE Multilinear(_, _, _, _, _)
Multilinear(points, values, x, d, idx) ==
    IF d > Len(points) THEN values[idx]
    ELSE LET i == FindIndex(points[d], x[d])
             t == NormDist(points[d], x[d], i)
         IN  RAdd(RMul(RSub(Rat(1), t), Multilinear(points, values, x, d + 1, Append(idx, i))),
                  RMul(t, Multilinear(points, values, x, d + 1, Append(idx, i + 1))))

OutOfBounds(points, x) ==
    \E d \in 1 .. Len(points) :
        RLess(x[d], points[d][1]) \/ RGreater(x[d], points[d][Len(points[d])])

RegularGridInterpolator(points, values, fv, x) ==
    IF OutOfBounds(points, x) THEN fv ELSE Multilinear(points, values, x, 1, <<>>)

\* A plausible slip in lines 223-227: every dim but 2 taken as 3.
BuildsInterpolant_ElseThree(d) == d >= 2

\* Lines 223, 225: the values of dim an interpolant is built for.
BuildsInterpolant(d) == d = 2 \/ d = 3

\* Lines 224, 226: the axes the interpolant is built over.
SourcePoints(d, z, lat, lon) ==
    IF d = 2 THEN <<lat, lon>> ELSE <<[k \in 1 .. Len(z) |-> RNeg(z[k])], lat, lon>>

\* A plausible slip in lines 237, 243: the coordinates passed as (lon, lat).
TargetPoints_LonLat(d, z, lat, lon) ==
    IF d = 2
    THEN [p \in (1 .. Len(lat)) \X (1 .. Len(lon)) |-> <<lon[p[2]], lat[p[1]]>>]
    ELSE [p \in (1 .. Len(z)) \X (1 .. Len(lat)) \X (1 .. Len(lon)) |->
              <<RNeg(z[p[1]]), lon[p[3]], lat[p[2]]>>]

\* Lines 232-243: the coordinates of every target point.  np.meshgrid gives
\* lon_2d[j,i] = target_lon[i] and lat_2d[j,i] = target_lat[j]; xy_to_xyz and
\* z_to_xyz tile them and target_grid.z over the target grid's three axes.
TargetPoints(d, z, lat, lon) ==
    IF d = 2
    THEN [p \in (1 .. Len(lat)) \X (1 .. Len(lon)) |-> <<lat[p[1]], lon[p[2]]>>]
    ELSE [p \in (1 .. Len(z)) \X (1 .. Len(lat)) \X (1 .. Len(lon)) |->
              <<RNeg(z[p[1]]), lat[p[2]], lon[p[3]]>>]

\* ------------------------------------------------------------ interp_grid
\* The grid types of Grid.get_lon_lat: the four of line 38 and the tracer grid.
GTypes == {"t", "u", "v", "psi", "w"}

\* The last three axes of a field of interp_grid (the axes before the last
\* two are taken together as the first), with at most MaxGridCells cells.
GridShapes ==
    {s \in (1 .. MaxGridCells) \X (1 .. MaxGridCells) \X (1 .. MaxGridCells) :
        s[1] * s[2] * s[3] <= MaxGridCells}

\* What the buffer of a MaskedArray argument holds under its mask.
LandSample == Rat(-1)

\* The MaskedArray arguments: every cell holds a value in 1..MaxVal+1 or is
\* masked.
GridFields(sh) == [CellsOf(sh) -> {Rat(v) : v \in 1 .. MaxVal + 1} \cup {LandSample}]

\* Lines 29-32: whether the field is depth-dependent.
DepthDependent_RankOnly(td, rank) == rank >= 3

DepthDependent(td, rank) == (td /\ rank = 4) \/ (~td /\ rank = 3)

\* A plausible slip in line 41: the masked cells left as they are.
ZeroFilled_Skipped(data, msk) == data

\* Lines 40-41: a copy of the buffer with zero in the masked cells.
ZeroFilled(data, msk) == [c \in DOMAIN data |-> IF msk[c] THEN Rat(0) ELSE data[c]]

\* Line 38: the grid types whose mask is filled with zeros.
VelocityGrid(g) == g \in {"u", "v", "psi", "w"}

\* A plausible slip in line 48: gtype_out not tested.
FromU_AnyTarget(gin, gout) == gin = "u"

\* Line 48 and line 53: the two supported conversions.
FromU(gin, gout) == gin = "u" /\ gout = "t"
FromV(gin, gout) == gin = "v" /\ gout = "t"

Half(a) == Norm(a[1], a[2] * 2)

\* A plausible slip in lines 50-52: the last column averaged with nothing.
MidpointsX_LastHalved(tmp, sh) ==
    [c \in CellsOf(sh) |->
        IF c[3] <= sh[3] - 2 THEN Half(RAdd(tmp[c], tmp[<<c[1], c[2], c[3] + 1>>]))
        ELSE Half(tmp[c])]

\* Lines 47, 50, 52: midpoints in the x direction, the easternmost column extended.
MidpointsX(tmp, sh) ==
    [c \in CellsOf(sh) |->
        IF c[3] <= sh[3] - 2 THEN Half(RAdd(tmp[c], tmp[<<c[1], c[2], c[3] + 1>>]))
        ELSE tmp[c]]

\* Lines 47, 55, 57: midpoints in the y direction, the northernmost row extended.
MidpointsY(tmp, sh) ==
    [c \in CellsOf(sh) |->
        IF c[2] <= sh[2] - 2 THEN Half(RAdd(tmp[c], tmp[<<c[1], c[2] + 1, c[3]>>]))
        ELSE tmp[c]]

\* ------------------------------------------------ interp_bdry (operators)
\* np.meshgrid(h, z): two arrays of len(z) rows and len(h) columns, indexed
\* from 0, the first repeating h along each row and the second z along each
\* column.
Meshgrid(h, z) ==
    LET idx == (0 .. Len(z) - 1) \X (0 .. Len(h) - 1)
    IN  <<[q \in idx |-> h[q[2] + 1]], [q \in idx |-> z[q[1] + 1]]>>

\* An axis as an array of one row.
AsRow(h) == [q \in {0} \X (0 .. Len(h) - 1) |-> h[q[2] + 1]]

\* The elements of a two-dimensional array of nh columns in row-major order.
Ravel(arr, nh) ==
    [r \in 1 .. Cardinality(DOMAIN arr) |-> arr[<<(r - 1) \div nh, (r - 1) % nh>>]]

RECURSIVE Compress(_, _)
\* seq[keep] for a boolean sequence keep: the elements kept, in order.
Compress(seq, keep) ==
    IF seq = <<>> THEN <<>>
    ELSE LET rest == Compress(Tail(seq), Tail(keep))
         IN  IF Head(keep) THEN <<Head(seq)>> \o rest ELSE rest

\* Lines 298-299: arr[~msk], the unmasked elements in row-major order.
Unmasked(arr, msk, nh) ==
    Compress(Ravel(arr, nh), [r \in 1 .. Cardinality(DOMAIN arr) |-> ~Ravel(msk, nh)[r]])

\* The axes of the source and of the target boundary, the wet fractions of
\* the target cells.
BdryAxis == RegAxis(0, 2)
BdryTargets == {<<Rat(0)>>, <<Half(Rat(1)), Rat(1)>>}
HFacs == {Rat(0), Rat(1)}

\* ------------------------------------------------ interp_topo (operators)
\* The source fields are the planes a + b*x + c*y sampled on the axes
\* (b = c = 0: a constant field), stored as values[<<row, column>>] with the
\* row along y.
TopoFields(ys, xs) ==
    {[q \in (1 .. Len(ys)) \X (1 .. Len(xs)) |->
         RAdd(Rat(a), RAdd(RTimes(xs[q[2]], b), RTimes(ys[q[1]], c)))] :
       a \in 1 .. 2, b \in 0 .. 1, c \in 0 .. 1}

\* A coordinate held inside the span of an axis, as the spline evaluation
\* does with a point outside its bounding box.
Clamp(v, axis) ==
    IF RLess(v, axis[1]) THEN axis[1]
    ELSE IF RLess(axis[Len(axis)], v) THEN axis[Len(axis)] ELSE v

\* Line 174 (scipy): the interpolating spline of degree 3 through values on
\* the grid ys x xs, evaluated at (yv, xv). A spline of degree 3 through the
\* samples of a plane is that plane, so for the fields of TopoFields its value
\* is the value of the plane through the samples.
RectBivariateSpline(ys, xs, values, yv, xv) ==
    LET slope_x == RDiv(RSub(values[<<1, 2>>], values[<<1, 1>>]), RSub(xs[2], xs[1]))
        slope_y == RDiv(RSub(values[<<2, 1>>], values[<<1, 1>>]), RSub(ys[2], ys[1]))
    IN  RAdd(values[<<1, 1>>],
             RAdd(RMul(slope_x, RSub(Clamp(xv, xs), xs[1])),
                  RMul(slope_y, RSub(Clamp(yv, ys), ys[1]))))

\* np.linspace(start, end, num=num): num points, both ends included.
Linspace(start, end, num) ==
    [k \in 1 .. num |-> RAdd(start, ROver(RTimes(RSub(end, start), k - 1), num - 1))]

\* A plausible slip in lines 197-198: the lower edge of each sub-cell taken
\* for its centre.
SubCentres_LowerEdge(edges) == [k \in 1 .. Len(edges) - 1 |-> edges[k]]

\* Lines 197-198: 0.5*(edges[1:] + edges[:-1]).
SubCentres(edges) ==
    [k \in 1 .. Len(edges) - 1 |-> Half(RAdd(edges[k + 1], edges[k]))]

RECURSIVE ArraySum(_, _)
ArraySum(f, S) ==
    IF S = {} THEN Rat(0)
    ELSE LET d == CHOOSE e \in S : TRUE IN RAdd(f[d], ArraySum(f, S \ {d}))

\* A plausible slip in line 200: np.sum for np.mean.
ArrayMean_Sum(f) == ArraySum(f, DOMAIN f)

\* np.mean of an array.
ArrayMean(f) == ROver(ArraySum(f, DOMAIN f), Cardinality(DOMAIN f))

\* Lines 181-192: the two edges in increasing order.
Ordered(a, b) == IF RLess(a, b) THEN <<a, b>> ELSE <<b, a>>

\* The edge arrays of the target grid: x edges xe along i and y edges ye
\* along j, taken among the source coordinates 0, 1 and 2 in either order,
\* each row of x edges shifted by sh/2 per row and each column of y edges by
\* sh/2 per column (sh = 0: a rectilinear grid).
TopoEdgeSeqs ==
    {e \in UNION {[1 .. n -> 0 .. 2] : n \in 2 .. 3} :
        \A k \in 1 .. Len(e) - 1 : e[k] # e[k + 1]}

XInterp(xe, ye, sh) ==
    [q \in (0 .. Len(ye) - 1) \X (0 .. Len(xe) - 1) |->
        RAdd(Rat(xe[q[2] + 1]), ROver(Rat(sh * q[1]), 2))]

YInterp(xe, ye, sh) ==
    [q \in (0 .. Len(ye) - 1) \X (0 .. Len(xe) - 1) |->
        RAdd(Rat(ye[q[1] + 1]), ROver(Rat(sh * q[2]), 2))]

VARIABLES
    pc,            \* position in the running call
    shape,         \* data.shape
    data,          \* the caller's array (the buffer of a MaskedArray when masked)
    mask,          \* data.mask of a MaskedArray argument
    missing_val, masked, use_3d, num_iters,   \* arguments of extend_into_mask
    iter,          \* loop variable of line 133
    num_valid_neighbours,   \* local of lines 135-144
    data_in,       \* the array as it was at call entry (history)
    data_start,    \* the array at the start of the latest iteration (history)
    data_mid,      \* the array after the latest horizontal fill (history)
    filled_h, filled_z,  \* cells written by lines 139 and 145 in the latest iteration (history)
    discard, fill,       \* mask arguments of discard_and_fill (the sets of their True cells)
    num_missing, num_missing_old,   \* locals of discard_and_fill
    loops,         \* calls of extend_into_mask made by discard_and_fill so far (history)
    discard_in, fill_in,   \* the mask arguments as they were at call entry (history)
    frame          \* arguments and locals of the running call of neighbours,
                   \* interp_slice_helper, interp_reg or interp_grid (a record)

eimvars == <<mask, masked, num_iters, iter, num_valid_neighbours, data_start, data_mid,
             filled_h, filled_z>>
dafvars == <<discard, fill, num_missing, num_missing_old, loops>>

entryvars == <<discard_in, fill_in>>

\* The variables of the calls other than extend_into_mask and discard_and_fill.
othervars == <<entryvars, frame>>

vars == <<pc, shape, data, missing_val, use_3d, data_in, eimvars, dafvars, othervars>>

\* The fields of frame, under the names the code gives them.
\* neighbours, neighbours_z: the tuples they returned.
ret_neighbours == frame.ret_neighbours
ret_neighbours_z == frame.ret_neighbours_z
\* interp_slice_helper: arguments and locals (its argument data is the variable data).
val0 == frame.val0
lon == frame.lon
i1 == frame.i1
i2 == frame.i2
c1 == frame.c1
c2 == frame.c2
\* interp_reg: the axes of source_grid and target_grid, the other arguments.
source_lat == frame.source_lat
source_lon == frame.source_lon
source_z == frame.source_z
source_data == frame.source_data
target_lat == frame.target_lat
target_lon == frame.target_lon
target_z == frame.target_z
dim == frame.dim
fill_value == frame.fill_value
\* interp_grid: arguments, len(data.shape), locals.
gtype_in == frame.gtype_in
gtype_out == frame.gtype_out
time_dependent == frame.time_dependent
mask_shelf == frame.mask_shelf
ndim == frame.ndim
depth_dependent == frame.depth_dependent
data_tmp == frame.data_tmp
\* interp_bdry: arguments (source_data is a MaskedArray with buffer data and
\* mask mask; source_h, source_z and source_data are rebound by lines 295-299).
source_h == frame.source_h
target_h == frame.target_h
target_hfac == frame.target_hfac
\* interp_topo: arguments and locals (its argument data is the variable
\* data; x, y and the loop indices j, i are frame.x, frame.y, frame.j,
\* frame.i); x_vals and y_vals keep, for each cell, the points of that cell.
x_interp == frame.x_interp
y_interp == frame.y_interp
n_subgrid == frame.n_subgrid
num_j == frame.num_j
num_i == frame.num_i
x_vals == frame.x_vals
y_vals == frame.y_vals
\* interp_reg, interp_grid, interp_topo: the local that is returned.
data_interp == frame.data_interp

\* No call other than extend_into_mask or discard_and_fill is running.
IdleFrame == frame = <<>>

IdleFill ==
    /\ mask = <<>> /\ masked = FALSE /\ use_3d = FALSE /\ num_iters = 0 /\ iter = 0
    /\ num_valid_neighbours = <<>> /\ data_start = <<>> /\ data_mid = <<>>
    /\ filled_h = {} /\ filled_z = {}
    /\ discard = {} /\ fill = {} /\ num_missing = 0 /\ num_missing_old = 0 /\ loops = 0
    /\ discard_in = {} /\ fill_in = {}

\* ------------------------------------------- extend_into_mask, step by step
InitEIM ==
    /\ pc = "eim_check"
    /\ shape \in Shapes
    /\ data \in Fields(shape)
    /\ masked \in BOOLEAN
    /\ mask = [c \in CellsOf(shape) |-> masked /\ data[c] = MaskedSample]
    /\ missing_val \in MissingVals
    /\ use_3d \in BOOLEAN
    /\ num_iters \in 0 .. MaxIters
    /\ iter = 0
    /\ num_valid_neighbours = [c \in CellsOf(shape) |-> 0]
    /\ data_in = data
    /\ data_start = data
    /\ data_mid = data
    /\ filled_h = {}
    /\ filled_z = {}
    /\ discard = {}
    /\ fill = {}
    /\ num_missing = 0
    /\ num_missing_old = 0
    /\ loops = 0
    /\ discard_in = {}
    /\ fill_in = {}
    /\ IdleFrame

\* Lines 122-124: sys.exit() on a sentinel given together with masked=True.
EIM_ConfigError ==
    /\ pc = "eim_check"
    /\ ConflictingArgs(missing_val, masked)
    /\ pc' = "exit"
    /\ UNCHANGED <<othervars, shape, data, mask, missing_val, masked, use_3d, num_iters, iter,
                   num_valid_neighbours, data_in, data_start, data_mid, filled_h, filled_z, dafvars>>

\* Lines 126-131: the mask is written into the buffer as missing_val.
EIM_Unmask ==
    /\ pc = "eim_check"
    /\ ~ConflictingArgs(missing_val, masked)
    /\ masked
    /\ data' = [c \in CellsOf(shape) |-> IF mask[c] THEN missing_val ELSE data[c]]
    /\ pc' = "eim_loop"
    /\ UNCHANGED <<othervars, shape, mask, missing_val, masked, use_3d, num_iters, iter,
                   num_valid_neighbours, data_in, data_start, data_mid, filled_h, filled_z, dafvars>>

\* Line 126 with masked=False: straight to the loop.
EIM_Enter ==
    /\ pc = "eim_check"
    /\ ~masked
    /\ pc' = "eim_loop"
    /\ UNCHANGED <<othervars, shape, data, mask, missing_val, masked, use_3d, num_iters, iter,
                   num_valid_neighbours, data_in, data_start, data_mid, filled_h, filled_z, dafvars>>

\* Lines 133-139 (and line 140 with use_3d=False: the iteration ends here).
EIM_Horizontal ==
    /\ pc = "eim_loop"
    /\ iter < num_iters
    /\ num_valid_neighbours' = neighbours(data, shape, missing_val)[9]
    /\ data' = HorizontalFill(data, shape, missing_val)
    /\ data_start' = data
    /\ data_mid' = data'
    /\ filled_h' = {c \in CellsOf(shape) :
                        FillIndex(data, num_valid_neighbours', missing_val, c)}
    /\ filled_z' = {}
    /\ pc' = IF use_3d THEN "eim_vertical" ELSE "eim_loop"
    /\ iter' = IF use_3d THEN iter ELSE iter + 1
    /\ UNCHANGED <<othervars, shape, mask, missing_val, masked, use_3d, num_iters, data_in, dafvars>>

\* Lines 140-145 with use_3d=True.
EIM_Vertical ==
    /\ pc = "eim_vertical"
    /\ data' = VerticalFill(data, shape, num_valid_neighbours, missing_val)
    /\ filled_z' = {c \in CellsOf(shape) :
                        FillIndexZ(data, num_valid_neighbours,
                                   neighbours_z(data, shape, missing_val)[5], missing_val, c)}
    /\ pc' = "eim_loop"
    /\ iter' = iter + 1
    /\ UNCHANGED <<othervars, shape, mask, missing_val, masked, use_3d, num_iters,
                   num_valid_neighbours, data_in, data_start, data_mid, filled_h, dafvars>>

\* Lines 147-149: the name ma is bound nowhere in the module (lines 5-9 import
\* np, sys, scipy.interpolate names and utils names), so line 149 raises NameError.
EIM_Remask ==
    /\ pc = "eim_loop"
    /\ iter >= num_iters
    /\ masked
    /\ pc' = "NameError"
    /\ UNCHANGED <<othervars, shape, data, mask, missing_val, masked, use_3d, num_iters, iter,
                   num_valid_neighbours, data_in, data_start, data_mid, filled_h, filled_z, dafvars>>

\* Lines 147, 151 with masked=False: the array itself is returned.
EIM_Return ==
    /\ pc = "eim_loop"
    /\ iter >= num_iters
    /\ ~masked
    /\ pc' = "returned"
    /\ UNCHANGED <<othervars, shape, data, mask, missing_val, masked, use_3d, num_iters, iter,
                   num_valid_neighbours, data_in, data_start, data_mid, filled_h, filled_z, dafvars>>

NextEIM ==
    \/ EIM_ConfigError
    \/ EIM_Unmask
    \/ EIM_Enter
    \/ EIM_Horizontal
    \/ EIM_Vertical
    \/ EIM_Remask
    \/ EIM_Return

SpecEIM == InitEIM /\ [][NextEIM]_vars

\* ------------------------------------------- discard_and_fill, step by step
\* The call leaves missing_val at its default, as the caller in forcing.py
\* (line 159) does; use_3d is passed either way.
InitDAF ==
    /\ pc = "daf_discard"
    /\ shape \in Shapes
    /\ missing_val = Rat(DefaultMissingVal)
    /\ data \in SampleFields(shape, missing_val)
    /\ discard \in SUBSET CellsOf(shape)
    /\ fill \in SUBSET CellsOf(shape)
    /\ use_3d \in BOOLEAN
    /\ data_in = data
    /\ num_missing = 0
    /\ num_missing_old = 0
    /\ loops = 0
    /\ mask = [c \in CellsOf(shape) |-> FALSE]
    /\ masked = FALSE
    /\ num_iters = 1
    /\ iter = 0
    /\ num_valid_neighbours = [c \in CellsOf(shape) |-> 0]
    /\ data_start = data
    /\ data_mid = data
    /\ filled_h = {}
    /\ filled_z = {}
    /\ discard_in = discard
    /\ fill_in = fill
    /\ IdleFrame

\* Lines 252-254: the discarded points are overwritten in the caller's array.
DAF_Discard ==
    /\ pc = "daf_discard"
    /\ data' = Discard(data, discard, missing_val)
    /\ num_missing' = CountMissing(data', fill, missing_val)
    /\ fill' = FillOperand(data', fill, missing_val)
    /\ pc' = "daf_loop"
    /\ UNCHANGED <<othervars, shape, missing_val, use_3d, data_in, eimvars,
                   discard, num_missing_old, loops>>

\* Lines 255-259: one pass of the while loop up to the recount.  The call of
\* line 257 fills the same array in place and returns it.
DAF_Fill ==
    /\ pc = "daf_loop"
    /\ PointsToFill(num_missing)
    /\ data' = extend_into_mask(data, shape, missing_val, use_3d, 1)
    /\ num_missing_old' = num_missing
    /\ num_missing' = CountMissing(data', fill, missing_val)
    /\ fill' = FillOperand(data', fill, missing_val)
    /\ loops' = loops + 1
    /\ pc' = "daf_test"
    /\ UNCHANGED <<othervars, shape, missing_val, use_3d, data_in, eimvars, discard>>

\* Lines 260-262: no change in the count ends the process (sys.exit()).
DAF_Stalled ==
    /\ pc = "daf_test"
    /\ NoProgress(num_missing, num_missing_old)
    /\ pc' = "exit"
    /\ UNCHANGED <<othervars, shape, data, missing_val, use_3d, data_in, eimvars, dafvars>>

\* Line 260 false: back to the loop test of line 255.
DAF_Again ==
    /\ pc = "daf_test"
    /\ ~NoProgress(num_missing, num_missing_old)
    /\ pc' = "daf_loop"
    /\ UNCHANGED <<othervars, shape, data, missing_val, use_3d, data_in, eimvars, dafvars>>

\* Lines 255, 263: the loop test fails and the array is returned.
DAF_Return ==
    /\ pc = "daf_loop"
    /\ ~PointsToFill(num_missing)
    /\ pc' = "returned"
    /\ UNCHANGED <<othervars, shape, data, missing_val, use_3d, data_in, eimvars, dafvars>>

NextDAF ==
    \/ DAF_Discard
    \/ DAF_Fill
    \/ DAF_Stalled
    \/ DAF_Again
    \/ DAF_Return

SpecDAF == InitDAF /\ [][NextDAF]_vars

\* --------------------------------- two calls of discard_and_fill compared
\* A first call as in SpecDAF, and after it a second call with the same
\* discard and fill masks on a field that holds OtherValue in every discarded
\* cell and the first call's entry values elsewhere. The second call's
\* array, masks, counts and position are the fields of frame.
InitPair ==
    /\ pc = "daf_discard"
    /\ shape \in {sh \in Shapes : sh[1] * sh[2] * sh[3] <= MaxPairCells}
    /\ missing_val = Rat(DefaultMissingVal)
    /\ data \in SampleFields(shape, missing_val)
    /\ discard \in SUBSET CellsOf(shape)
    /\ fill \in SUBSET CellsOf(shape)
    /\ use_3d \in BOOLEAN
    /\ data_in = data
    /\ num_missing = 0
    /\ num_missing_old = 0
    /\ loops = 0
    /\ mask = [c \in CellsOf(shape) |-> FALSE]
    /\ masked = FALSE
    /\ num_iters = 1
    /\ iter = 0
    /\ num_valid_neighbours = [c \in CellsOf(shape) |-> 0]
    /\ data_start = data
    /\ data_mid = data
    /\ filled_h = {}
    /\ filled_z = {}
    /\ discard_in = discard
    /\ fill_in = fill
    /\ frame = [pc |-> "daf_discard",
                data |-> [c \in CellsOf(shape) |-> IF c \in discard THEN OtherValue ELSE data[c]],
                data_in |-> [c \in CellsOf(shape) |-> IF c \in discard THEN OtherValue ELSE data[c]],
                discard |-> discard, fill |-> fill,
                num_missing |-> 0, num_missing_old |-> 0]

\* The first call has ended.
FirstEnded == pc \in {"returned", "exit"}

\* Lines 252-254 of the second call.
Pair_Discard ==
    /\ FirstEnded
    /\ frame.pc = "daf_discard"
    /\ LET d == Discard(frame.data, frame.discard, missing_val)
       IN  frame' = [frame EXCEPT !.data = d,
                                  !.num_missing = CountMissing(d, frame.fill, missing_val),
                                  !.fill = FillOperand(d, frame.fill, missing_val),
                                  !.pc = "daf_loop"]
    /\ UNCHANGED <<pc, shape, data, missing_val, use_3d, data_in, eimvars, dafvars, entryvars>>

\* Lines 255-259 of the second call.
Pair_Fill ==
    /\ FirstEnded
    /\ frame.pc = "daf_loop"
    /\ PointsToFill(frame.num_missing)
    /\ LET d == extend_into_mask(frame.data, shape, missing_val, use_3d, 1)
       IN  frame' = [frame EXCEPT !.data = d,
                                  !.num_missing_old = frame.num_missing,
                                  !.num_missing = CountMissing(d, frame.fill, missing_val),
                                  !.fill = FillOperand(d, frame.fill, missing_val),
                                  !.pc = "daf_test"]
    /\ UNCHANGED <<pc, shape, data, missing_val, use_3d, data_in, eimvars, dafvars, entryvars>>

\* Lines 260-262 of the second call.
Pair_Stalled ==
    /\ FirstEnded
    /\ frame.pc = "daf_test"
    /\ NoProgress(frame.num_missing, frame.num_missing_old)
    /\ frame' = [frame EXCEPT !.pc = "exit"]
    /\ UNCHANGED <<pc, shape, data, missing_val, use_3d, data_in, eimvars, dafvars, entryvars>>

\* Line 260 false in the second call.
Pair_Again ==
    /\ FirstEnded
    /\ frame.pc = "daf_test"
    /\ ~NoProgress(frame.num_missing, frame.num_missing_old)
    /\ frame' = [frame EXCEPT !.pc = "daf_loop"]
    /\ UNCHANGED <<pc, shape, data, missing_val, use_3d, data_in, eimvars, dafvars, entryvars>>

\* Lines 255, 263 of the second call.
Pair_Return ==
    /\ FirstEnded
    /\ frame.pc = "daf_loop"
    /\ ~PointsToFill(frame.num_missing)
    /\ frame' = [frame EXCEPT !.pc = "returned"]
    /\ UNCHANGED <<pc, shape, data, missing_val, use_3d, data_in, eimvars, dafvars, entryvars>>

NextPair ==
    \/ DAF_Discard
    \/ DAF_Fill
    \/ DAF_Stalled
    \/ DAF_Again
    \/ DAF_Return
    \/ Pair_Discard
    \/ Pair_Fill
    \/ Pair_Stalled
    \/ Pair_Again
    \/ Pair_Return

SpecPair == InitPair /\ [][NextPair]_vars

\* ------------------------------------------- neighbours and neighbours_z
\* A call of neighbours followed by a call of neighbours_z on the same array.
InitNbr ==
    /\ pc = "nbr_call"
    /\ shape \in Shapes
    /\ data \in Fields(shape)
    /\ missing_val \in MissingVals
    /\ data_in = data
    /\ frame = [ret_neighbours |-> <<>>, ret_neighbours_z |-> <<>>]
    /\ IdleFill

\* Lines 75-99: the shifted arrays are new arrays (np.empty); data is only read.
Nbr_Call ==
    /\ pc = "nbr_call"
    /\ frame' = [frame EXCEPT !.ret_neighbours = neighbours(data, shape, missing_val)]
    /\ pc' = "nbrz_call"
    /\ UNCHANGED <<shape, data, missing_val, use_3d, data_in, eimvars, dafvars, entryvars>>

\* Lines 103-114.
NbrZ_Call ==
    /\ pc = "nbrz_call"
    /\ frame' = [frame EXCEPT !.ret_neighbours_z = neighbours_z(data, shape, missing_val)]
    /\ pc' = "returned"
    /\ UNCHANGED <<shape, data, missing_val, use_3d, data_in, eimvars, dafvars, entryvars>>

NextNbr ==
    \/ Nbr_Call
    \/ NbrZ_Call

SpecNbr == InitNbr /\ [][NextNbr]_vars

\* ------------------------------------------- remove_isolated_cells, step by step
\* The argument mask_val is held in missing_val, the name neighbours gives it.
InitRIC ==
    /\ pc = "ric_count"
    /\ shape \in Shapes
    /\ data \in Fields(shape)
    /\ missing_val \in MaskVals
    /\ data_in = data
    /\ IdleFrame
    /\ IdleFill

\* Line 208.
RIC_Count ==
    /\ pc = "ric_count"
    /\ num_valid_neighbours' = neighbours(data, shape, missing_val)[9]
    /\ pc' = "ric_remove"
    /\ UNCHANGED <<othervars, shape, data, missing_val, use_3d, data_in, dafvars,
                   mask, masked, num_iters, iter, data_start, data_mid, filled_h, filled_z>>

\* Lines 209-212: the cells are overwritten in the caller's array, which is
\* returned.
RIC_Remove ==
    /\ pc = "ric_remove"
    /\ data' = [c \in CellsOf(shape) |->
                  IF IsolatedIndex(data, num_valid_neighbours, missing_val, c)
                  THEN missing_val ELSE data[c]]
    /\ pc' = "returned"
    /\ UNCHANGED <<othervars, shape, missing_val, use_3d, data_in, eimvars, dafvars>>

NextRIC ==
    \/ RIC_Count
    \/ RIC_Remove

SpecRIC == InitRIC /\ [][NextRIC]_vars

\* ---------------------------------------- interp_slice_helper, step by step
InitISH ==
    /\ pc = "ish_find"
    /\ data \in AxisSeqs
    /\ frame \in [val0 : Targets, lon : BOOLEAN, i1 : {0}, i2 : {0}, c1 : {<<>>}, c2 : {<<>>}]
    /\ shape = <<Len(data)>>
    /\ missing_val = <<>>
    /\ data_in = data
    /\ IdleFill

\* Line 271 when some sample is greater than val0.
ISH_Find ==
    /\ pc = "ish_find"
    /\ NonzeroGreater(data, val0) # {}
    /\ frame' = [frame EXCEPT !.i2 = First(NonzeroGreater(data, val0))]
    /\ pc' = "ish_branch"
    /\ UNCHANGED <<shape, data, missing_val, use_3d, data_in, eimvars, dafvars, entryvars>>

\* Line 271 when no sample is greater than val0: np.nonzero(...)[0] is empty
\* and its element 0 does not exist (IndexError).
ISH_FindNone ==
    /\ pc = "ish_find"
    /\ NonzeroGreater(data, val0) = {}
    /\ pc' = "IndexError"
    /\ UNCHANGED <<shape, data, missing_val, use_3d, data_in, eimvars, dafvars, othervars>>

\* Lines 273-275, 286-288: the general case.
ISH_General ==
    /\ pc = "ish_branch"
    /\ i2 > 0
    /\ LET new_i1 == i2 - 1
           new_c2 == Weight(data, val0, new_i1, i2)
       IN  frame' = [frame EXCEPT !.i1 = new_i1, !.c2 = new_c2, !.c1 = RSub(Rat(1), new_c2)]
    /\ pc' = "returned"
    /\ UNCHANGED <<shape, data, missing_val, use_3d, data_in, eimvars, dafvars, entryvars>>

\* Lines 276-281: longitude wraps around.
ISH_Wrap ==
    /\ pc = "ish_branch"
    /\ ~(i2 > 0)
    /\ WrapTest(data, val0, lon, i2)
    /\ LET new_i1 == Len(data) - 1
           new_c2 == WrapWeight(data, val0, new_i1, i2)
       IN  frame' = [frame EXCEPT !.i1 = new_i1, !.c2 = new_c2, !.c1 = RSub(Rat(1), new_c2)]
    /\ pc' = "returned"
    /\ UNCHANGED <<shape, data, missing_val, use_3d, data_in, eimvars, dafvars, entryvars>>

\* Lines 282-284: the out-of-bounds message and sys.exit().
ISH_OutOfBounds ==
    /\ pc = "ish_branch"
    /\ ~(i2 > 0)
    /\ ~WrapTest(data, val0, lon, i2)
    /\ pc' = "exit"
    /\ UNCHANGED <<shape, data, missing_val, use_3d, data_in, eimvars, dafvars, othervars>>

NextISH ==
    \/ ISH_Find
    \/ ISH_FindNone
    \/ ISH_General
    \/ ISH_Wrap
    \/ ISH_OutOfBounds

SpecISH == InitISH /\ [][NextISH]_vars

\* ------------------------------------------------- interp_reg, step by step
\* The field on the source grid: it has the rank dim asks for (two axes
\* unless dim is 3).
SourceData(d, zs, lats, lons) ==
    IF d = 3
    THEN [idx \in (1 .. Len(zs)) \X (1 .. Len(lats)) \X (1 .. Len(lons)) |-> SourceSample(idx)]
    ELSE [idx \in (1 .. Len(lats)) \X (1 .. Len(lons)) |-> SourceSample(idx)]

InitReg ==
    /\ pc = "reg_build"
    /\ \E sz \in SourceZs, slat \in SourceLats, slon \in SourceLons, d \in Dims :
          frame \in [source_lat : {slat}, source_lon : {slon}, source_z : {sz},
                     source_data : {SourceData(d, sz, slat, slon)},
                     target_lat : TargetLats, target_lon : TargetLons, target_z : TargetZs,
                     dim : {d}, fill_value : FillValues, data_interp : {<<>>}]
    /\ shape = <<>> /\ data = <<>> /\ missing_val = <<>> /\ data_in = <<>>
    /\ IdleFill

\* Lines 227-229: dim is neither 2 nor 3.
Reg_UsageError ==
    /\ pc = "reg_build"
    /\ ~BuildsInterpolant(dim)
    /\ pc' = "exit"
    /\ UNCHANGED <<shape, data, missing_val, use_3d, data_in, eimvars, dafvars, othervars>>

\* Lines 221-226 and 231-245: the interpolant is built and evaluated at every
\* target point.
Reg_Interpolate ==
    /\ pc = "reg_build"
    /\ BuildsInterpolant(dim)
    /\ LET points == SourcePoints(dim, source_z, source_lat, source_lon)
           xi == TargetPoints(dim, target_z, target_lat, target_lon)
       IN  frame' = [frame EXCEPT !.data_interp =
                        [p \in DOMAIN xi |->
                            RegularGridInterpolator(points, source_data, fill_value, xi[p])]]
    /\ pc' = "returned"
    /\ UNCHANGED <<shape, data, missing_val, use_3d, data_in, eimvars, dafvars, entryvars>>

NextReg ==
    \/ Reg_UsageError
    \/ Reg_Interpolate

SpecReg == InitReg /\ [][NextReg]_vars

\* ------------------------------------------------ interp_grid, step by step
\* The argument is a MaskedArray of rank ndim with buffer data and mask mask.
InitIG ==
    /\ pc = "ig_start"
    /\ shape \in GridShapes
    /\ data \in GridFields(shape)
    /\ mask = [c \in CellsOf(shape) |-> data[c] = LandSample]
    /\ frame \in [gtype_in : GTypes, gtype_out : GTypes,
                   time_dependent : BOOLEAN, mask_shelf : BOOLEAN,
                   ndim : {n \in 2 .. 4 : n = 2 => shape[1] = 1},
                   depth_dependent : {FALSE}, data_tmp : {<<>>}, data_interp : {<<>>}]
    /\ data_in = data
    /\ missing_val = <<>>
    /\ masked = TRUE /\ use_3d = FALSE /\ num_iters = 0 /\ iter = 0
    /\ num_valid_neighbours = <<>> /\ data_start = <<>> /\ data_mid = <<>>
    /\ filled_h = {} /\ filled_z = {}
    /\ discard = {} /\ fill = {} /\ num_missing = 0 /\ num_missing_old = 0 /\ loops = 0
    /\ discard_in = {} /\ fill_in = {}

\* Lines 29-36: mask_shelf=True with a depth-dependent field ends the process.
IG_ConfigError ==
    /\ pc = "ig_start"
    /\ mask_shelf /\ DepthDependent(time_dependent, ndim)
    /\ frame' = [frame EXCEPT !.depth_dependent = DepthDependent(time_dependent, ndim)]
    /\ pc' = "exit"
    /\ UNCHANGED <<shape, data, missing_val, use_3d, data_in, eimvars, dafvars, entryvars>>

\* Lines 29-44: the field to interpolate; for the tracer grid it is the
\* argument itself.
IG_Prepare ==
    /\ pc = "ig_start"
    /\ ~(mask_shelf /\ DepthDependent(time_dependent, ndim))
    /\ frame' = [frame EXCEPT
                    !.depth_dependent = DepthDependent(time_dependent, ndim),
                    !.data_tmp = IF VelocityGrid(gtype_in) THEN ZeroFilled(data, mask) ELSE data]
    /\ pc' = "ig_interp"
    /\ UNCHANGED <<shape, data, missing_val, use_3d, data_in, eimvars, dafvars, entryvars>>

\* Lines 47-52.
IG_InterpU ==
    /\ pc = "ig_interp"
    /\ FromU(gtype_in, gtype_out)
    /\ frame' = [frame EXCEPT !.data_interp = MidpointsX(data_tmp, shape)]
    /\ pc' = "ig_mask"
    /\ UNCHANGED <<shape, data, missing_val, use_3d, data_in, eimvars, dafvars, entryvars>>

\* Lines 47, 53-57.
IG_InterpV ==
    /\ pc = "ig_interp"
    /\ ~FromU(gtype_in, gtype_out)
    /\ FromV(gtype_in, gtype_out)
    /\ frame' = [frame EXCEPT !.data_interp = MidpointsY(data_tmp, shape)]
    /\ pc' = "ig_mask"
    /\ UNCHANGED <<shape, data, missing_val, use_3d, data_in, eimvars, dafvars, entryvars>>

\* Lines 58-60: any other pair of grid types ends the process.
IG_Unsupported ==
    /\ pc = "ig_interp"
    /\ ~FromU(gtype_in, gtype_out)
    /\ ~FromV(gtype_in, gtype_out)
    /\ pc' = "exit"
    /\ UNCHANGED <<shape, data, missing_val, use_3d, data_in, eimvars, dafvars, othervars>>

\* Lines 63-71: mask_3d, mask_land or mask_land_zice (utils) lays the mask of
\* the grid over data_interp, whose values stay as they are, and the result
\* is returned.
IG_Remask ==
    /\ pc = "ig_mask"
    /\ pc' = "returned"
    /\ UNCHANGED <<shape, data, missing_val, use_3d, data_in, eimvars, dafvars, othervars>>

NextIG ==
    \/ IG_ConfigError
    \/ IG_Prepare
    \/ IG_InterpU
    \/ IG_InterpV
    \/ IG_Unsupported
    \/ IG_Remask

SpecIG == InitIG /\ [][NextIG]_vars

\* ------------------------------------------------ interp_topo, step by step
\* The source grid has MaxSourceLen samples along x and one more along y.
InitTopo ==
    /\ pc = "topo_start"
    /\ \E xe \in TopoEdgeSeqs, ye \in TopoEdgeSeqs, sh \in 0 .. 1, n \in 1 .. MaxSubgrid :
          LET xs == RegAxis(0, MaxSourceLen)
              ys == RegAxis(0, MaxSourceLen + 1)
          IN  /\ shape = <<Len(ys), Len(xs)>>
              /\ data \in TopoFields(ys, xs)
              /\ frame = [x |-> xs, y |-> ys,
                          x_interp |-> XInterp(xe, ye, sh), y_interp |-> YInterp(xe, ye, sh),
                          n_subgrid |-> n, num_j |-> 0, num_i |-> 0, j |-> 0, i |-> 0,
                          x_vals |-> <<>>, y_vals |-> <<>>, data_interp |-> <<>>]
    /\ data_in = data
    /\ missing_val = <<>>
    /\ IdleFill

\* .shape of a two-dimensional array.
ArrayShape(arr) ==
    <<Cardinality({q[1] : q \in DOMAIN arr}), Cardinality({q[2] : q \in DOMAIN arr})>>

\* Lines 169-174: the size of the output, the empty output array.
Topo_Start ==
    /\ pc = "topo_start"
    /\ LET nj == ArrayShape(y_interp)[1] - 1
           ni == ArrayShape(x_interp)[2] - 1
           cells == (0 .. nj - 1) \X (0 .. ni - 1)
       IN  frame' = [frame EXCEPT !.num_j = nj, !.num_i = ni, !.j = 0, !.i = 0,
                                  !.x_vals = [q \in cells |-> <<>>],
                                  !.y_vals = [q \in cells |-> <<>>],
                                  !.data_interp = [q \in cells |-> <<>>]]
    /\ pc' = "topo_loop"
    /\ UNCHANGED <<shape, data, missing_val, use_3d, data_in, eimvars, dafvars, entryvars>>

\* Lines 177-200: the body of the loops for the cell (j, i), and the step to
\* the next cell.
Topo_Cell ==
    /\ pc = "topo_loop"
    /\ frame.j < num_j
    /\ LET j == frame.j
           i == frame.i
           xo == Ordered(x_interp[<<j, i>>], x_interp[<<j, i + 1>>])
           yo == Ordered(y_interp[<<j, i>>], y_interp[<<j + 1, i>>])
           x_edges == Linspace(xo[1], xo[2], n_subgrid + 1)
           y_edges == Linspace(yo[1], yo[2], n_subgrid + 1)
           xv == SubCentres(x_edges)
           yv == SubCentres(y_edges)
           fine == [q \in (1 .. Len(yv)) \X (1 .. Len(xv)) |->
                      RectBivariateSpline(frame.y, frame.x, data, yv[q[1]], xv[q[2]])]
       IN  frame' = [frame EXCEPT !.data_interp[<<j, i>>] = ArrayMean(fine),
                                  !.x_vals[<<j, i>>] = xv,
                                  !.y_vals[<<j, i>>] = yv,
                                  !.i = IF i + 1 < num_i THEN i + 1 ELSE 0,
                                  !.j = IF i + 1 < num_i THEN j ELSE j + 1]
    /\ UNCHANGED <<pc, shape, data, missing_val, use_3d, data_in, eimvars, dafvars, entryvars>>

\* Line 202.
Topo_Return ==
    /\ pc = "topo_loop"
    /\ frame.j = num_j
    /\ pc' = "returned"
    /\ UNCHANGED <<shape, data, missing_val, use_3d, data_in, eimvars, dafvars, othervars>>

NextTopo ==
    \/ Topo_Start
    \/ Topo_Cell
    \/ Topo_Return

SpecTopo == InitTopo /\ [][NextTopo]_vars

\* ------------------------------------------------ interp_bdry, step by step
\* source_h and source_z are plain arrays (the axes of a grid), source_data
\* is a MaskedArray of one row per depth (a single row when the field is not
\* depth-dependent).
InitBdry ==
    /\ pc = "bdry_start"
    /\ \E dd \in BOOLEAN, th \in BdryTargets, tz \in BdryTargets :
          LET nz == IF dd THEN Len(BdryAxis) ELSE 1
              idx == (0 .. nz - 1) \X (0 .. Len(BdryAxis) - 1)
              tidx == (0 .. (IF dd THEN Len(tz) ELSE 1) - 1) \X (0 .. Len(th) - 1)
          IN  /\ shape = <<1, nz, Len(BdryAxis)>>
              /\ data \in [idx -> {Rat(1), Rat(2)}]
              /\ mask \in [idx -> BOOLEAN]
              /\ \E hf \in [tidx -> HFacs] :
                    frame = [source_h |-> BdryAxis, source_z |-> BdryAxis, source_data |-> data,
                             target_h |-> th, target_z |-> tz, target_hfac |-> hf,
                             depth_dependent |-> dd, data_interp |-> <<>>]
    /\ data_in = data
    /\ missing_val = <<>>
    /\ masked = TRUE /\ use_3d = FALSE /\ num_iters = 0 /\ iter = 0
    /\ num_valid_neighbours = <<>> /\ data_start = <<>> /\ data_mid = <<>>
    /\ filled_h = {} /\ filled_z = {}
    /\ discard = {} /\ fill = {} /\ num_missing = 0 /\ num_missing_old = 0 /\ loops = 0
    /\ discard_in = {} /\ fill_in = {}

\* Lines 293-299: the axes are meshed for a depth-dependent field, then the
\* masked points are dropped from source_h and source_data.
Bdry_RemoveMasked ==
    /\ pc = "bdry_start"
    /\ LET meshed == Meshgrid(source_h, source_z)
           h == IF depth_dependent THEN meshed[1] ELSE AsRow(source_h)
       IN  frame' = [frame EXCEPT
                        !.source_h = Unmasked(h, mask, shape[3]),
                        !.source_z = IF depth_dependent THEN meshed[2] ELSE source_z,
                        !.source_data = Unmasked(data, mask, shape[3])]
    /\ pc' = "bdry_z"
    /\ UNCHANGED <<shape, data, missing_val, use_3d, data_in, eimvars, dafvars, entryvars>>

\* Lines 300-301: source_z, an ndarray returned by np.meshgrid, has no
\* attribute mask.
Bdry_NoMaskAttribute ==
    /\ pc = "bdry_z"
    /\ depth_dependent
    /\ pc' = "AttributeError"
    /\ UNCHANGED <<shape, data, missing_val, use_3d, data_in, eimvars, dafvars, othervars>>

\* Lines 300, 304, 307-308: nothing has been bound to interpolant when the
\* field is not depth-dependent.
Bdry_NoInterpolant ==
    /\ pc = "bdry_z"
    /\ ~depth_dependent
    /\ pc' = "UnboundLocalError"
    /\ UNCHANGED <<shape, data, missing_val, use_3d, data_in, eimvars, dafvars, othervars>>

NextBdry ==
    \/ Bdry_RemoveMasked
    \/ Bdry_NoMaskAttribute
    \/ Bdry_NoInterpolant

SpecBdry == InitBdry /\ [][NextBdry]_vars

\* ====================================================================
\* Properties of extend_into_mask (checked under SpecEIM)
\* ====================================================================

\* The in-grid horizontal neighbours of a cell: one step west, east, south, north.
HorizontalNbrs(c, sh) ==
    {d \in CellsOf(sh) :
        /\ d[1] = c[1]
        /\ \/ (d[2] = c[2] /\ (d[3] = c[3] - 1 \/ d[3] = c[3] + 1))
           \/ (d[3] = c[3] /\ (d[2] = c[2] - 1 \/ d[2] = c[2] + 1))}

\* The in-grid vertical neighbours of a cell: one level above, one below.
VerticalNbrs(c, sh) ==
    {d \in CellsOf(sh) : d[2] = c[2] /\ d[3] = c[3] /\ (d[1] = c[1] - 1 \/ d[1] = c[1] + 1)}

\* The neighbours among S that hold a value in field f.
ValidIn(f, S, mv) == {d \in S : f[d] # mv}

RECURSIVE SumOver(_, _)
SumOver(f, S) ==
    IF S = {} THEN Rat(0)
    ELSE LET d == CHOOSE x \in S : TRUE IN RAdd(f[d], SumOver(f, S \ {d}))

\* The arithmetic mean of f over the non-empty set S of cells.
MeanOver(f, S) == ROver(SumOver(f, S), Cardinality(S))

\* At least one pass of the loop body has run its horizontal fill.
HorizontalDone == pc = "eim_vertical" \/ iter > 0

\* A pass of the loop body has run to its end.
IterationDone == iter > 0 /\ pc # "eim_vertical"

NoMissing(f, mv) == \A c \in DOMAIN f : f[c] # mv

\* C1: extend_into_mask on a sentinel-convention field (masked=False) in which
\* no cell equals missing_val never changes a cell, for every num_iters and
\* with use_3d on or off, and it returns (it never ends in an error).
C1_NoMissingIsNoOp ==
    (~masked /\ NoMissing(data_in, missing_val))
        => (data = data_in /\ pc \in {"eim_check", "eim_loop", "eim_vertical", "returned"})

C1_Witness ==
    /\ pc = "returned" /\ ~masked /\ use_3d /\ num_iters = MaxIters
    /\ NoMissing(data_in, missing_val)
    /\ shape[1] > 1 /\ shape[3] > 1
    /\ \E c, d \in CellsOf(shape) : data[c] # data[d]

\* C2: after the horizontal fill of an iteration, and still at the end of that
\* iteration, every cell that was missing at the start of the iteration and had
\* at least one valid in-grid horizontal neighbour holds the arithmetic mean of
\* exactly those neighbours' start-of-iteration values; when they all equal v
\* it holds exactly v.
C2_HorizontalMean ==
    HorizontalDone =>
        \A c \in CellsOf(shape) :
            LET V == ValidIn(data_start, HorizontalNbrs(c, shape), missing_val)
            IN  (data_start[c] = missing_val /\ V # {}) =>
                    /\ data[c] = MeanOver(data_start, V)
                    /\ \A v \in {data_start[d] : d \in V} :
                           (\A d \in V : data_start[d] = v) => data[c] = v

C2_Witness ==
    /\ IterationDone
    /\ \E c \in CellsOf(shape) :
          LET V == ValidIn(data_start, HorizontalNbrs(c, shape), missing_val)
          IN  /\ data_start[c] = missing_val
              /\ Cardinality(V) = 2
              /\ \E d, e \in V : data_start[d] # data_start[e]
              /\ data[c] = MeanOver(data_start, V)
              /\ data[c][2] = 2

\* C3: with use_3d=True, the cells line 145 fills in an iteration are exactly
\* the cells that were missing with zero valid horizontal neighbours at the
\* start of the iteration and have at least one valid vertical neighbour when
\* the vertical step runs (after the horizontal fill); each of them receives
\* the mean of those vertical neighbours; a missing cell with a valid
\* horizontal neighbour receives the horizontal mean and is not touched by
\* the vertical step.
C3_VerticalFallback ==
    (use_3d /\ IterationDone) =>
        /\ filled_z =
              {c \in CellsOf(shape) :
                  /\ data_start[c] = missing_val
                  /\ ValidIn(data_start, HorizontalNbrs(c, shape), missing_val) = {}
                  /\ ValidIn(data_mid, VerticalNbrs(c, shape), missing_val) # {}}
        /\ \A c \in filled_z :
              data[c] = MeanOver(data_mid, ValidIn(data_mid, VerticalNbrs(c, shape), missing_val))
        /\ \A c \in CellsOf(shape) :
              LET V == ValidIn(data_start, HorizontalNbrs(c, shape), missing_val)
              IN  (data_start[c] = missing_val /\ V # {}) =>
                      (c \notin filled_z /\ data[c] = MeanOver(data_start, V))

C3_Witness ==
    /\ use_3d /\ IterationDone
    /\ \E c \in filled_z :
          /\ Cardinality(ValidIn(data_mid, VerticalNbrs(c, shape), missing_val)) = 1
          /\ data[c] # missing_val /\ data[c] # Rat(0)
    /\ \E c \in CellsOf(shape) :
          /\ data_start[c] = missing_val
          /\ ValidIn(data_start, HorizontalNbrs(c, shape), missing_val) # {}
          /\ c \in filled_h

\* C4: a call with masked=True and a missing_val other than the default never
\* gets past the argument check: it ends in sys.exit() with the buffer and the
\* mask as they were at entry.
C4_ConflictingArgsExit ==
    (masked /\ missing_val # Rat(DefaultMissingVal)) =>
        /\ pc \in {"eim_check", "exit"}
        /\ data = data_in
        /\ iter = 0

C4_Witness ==
    /\ pc = "exit" /\ masked /\ missing_val # Rat(DefaultMissingVal)
    /\ \E c \in CellsOf(shape) : mask[c]
    /\ num_iters > 0

\* C5 (as claimed): a call with masked=True and the default sentinel completes
\* and returns a masked field whose mask is exactly the cells still missing.
C5_MaskedCallReturns ==
    (masked /\ missing_val = Rat(DefaultMissingVal)) =>
        /\ pc # "NameError"
        /\ pc = "returned" => mask = [c \in CellsOf(shape) |-> data[c] = missing_val]

\* ====================================================================
\* Properties of discard_and_fill (checked under SpecDAF)
\* ====================================================================

\* The field the fill loop starts from: the entry field with the discarded
\* cells missing.
AfterDiscard ==
    [c \in CellsOf(shape) |-> IF c \in discard THEN missing_val ELSE data_in[c]]

\* The cells the fill mask selects that are missing after the discard step.
RequiredMissing == {c \in fill : AfterDiscard[c] = missing_val}

\* The neighbour graph the fill works on: horizontal steps, and vertical steps
\* when use_3d is set.
GraphNbrs(c) ==
    HorizontalNbrs(c, shape) \cup (IF use_3d THEN VerticalNbrs(c, shape) ELSE {})

RECURSIVE Grow(_)
Grow(S) ==
    LET T == S \cup UNION {GraphNbrs(c) : c \in S}
    IN  IF T = S THEN S ELSE Grow(T)

\* The cells joined to a valid, non-discarded cell by a path of neighbouring cells.
ReachableFromValid == Grow({c \in CellsOf(shape) : AfterDiscard[c] # missing_val})

\* C6: when discard_and_fill returns, no cell selected by the fill mask holds
\* the sentinel; and when no selected cell is missing after the discard step
\* the call returns without a single call of extend_into_mask.
C6_ReturnHasNoRequiredMissing ==
    /\ pc = "returned" => \A c \in fill : data[c] # missing_val
    /\ RequiredMissing = {} => (loops = 0 /\ pc \in {"daf_discard", "daf_loop", "returned"})

C6_Witness ==
    /\ pc = "returned" /\ loops >= 2
    /\ \E c \in fill : c \in discard /\ data_in[c] # missing_val /\ data[c] # data_in[c]
    /\ \E c \in fill : c \notin discard /\ data_in[c] = missing_val

\* C7: the count of missing-and-required cells is a variant of the loop: it is
\* the true count of such cells, every pass that does not end the call makes
\* it strictly smaller, a pass that leaves it unchanged ends the call, so the
\* number of passes never exceeds the number of required cells missing after
\* the discard step (the loop is back at its head after a pass only with a
\* smaller count, and the count never grows).
C7_LoopVariant ==
    /\ pc \in {"daf_discard", "daf_loop", "daf_test", "returned", "exit"}
    /\ loops <= Cardinality(RequiredMissing)
    /\ pc # "daf_discard" => num_missing = Cardinality({c \in fill : data[c] = missing_val})
    /\ pc = "daf_loop" => num_missing + loops <= Cardinality(RequiredMissing)
    /\ (pc = "daf_loop" /\ loops > 0) => num_missing < num_missing_old
    /\ pc = "daf_test" => num_missing <= num_missing_old
    /\ pc = "exit" => num_missing = num_missing_old

C7_Witness ==
    /\ pc = "exit" /\ loops = 2
    /\ Cardinality(RequiredMissing) = 2
    /\ num_missing = 1

\* C8: when some cell selected by the fill mask is missing after the discard
\* step and no path of neighbouring cells joins it to a valid cell, the call
\* never returns a field: it can only end in the sys.exit() of line 262.
C8_UnreachableNeverReturns ==
    pc = "returned" => ~(RequiredMissing \ ReachableFromValid # {})

C8_Witness ==
    /\ pc = "exit" /\ loops >= 2
    /\ RequiredMissing \ ReachableFromValid # {}
    /\ RequiredMissing \cap ReachableFromValid # {}
    /\ discard # {}

\* C9 (as claimed): when every missing cell selected by the fill mask is joined
\* to a valid non-discarded cell by a path of neighbouring cells, the call
\* does not end in the convergence error.
C9_ReachableNeverExits ==
    (RequiredMissing \subseteq ReachableFromValid) => pc # "exit"

\* C10 (as claimed): when the call ends with the convergence error the
\* caller's array holds the values it held at call entry.
C10_ArrayRestoredOnExit ==
    pc = "exit" => data = data_in

\* C10 (amended): when the call ends with the convergence error nothing is
\* returned, and the caller's array, written in place by the discard step and
\* by at least one fill pass, keeps its entry value only in the cells that
\* were valid at entry and not discarded; each other cell holds the sentinel
\* or a value filled in before the error.
C10_ExitLeavesWorkedArray ==
    pc = "exit" =>
        /\ loops >= 1
        /\ \A c \in CellsOf(shape) :
              (c \notin discard /\ data_in[c] # missing_val) => data[c] = data_in[c]
        /\ \A c \in CellsOf(shape) :
              (c \in discard \/ data_in[c] = missing_val) =>
                  (data[c] = missing_val \/ c \in ReachableFromValid)

C10_Witness ==
    /\ pc = "exit"
    /\ \E c \in discard : data_in[c] # missing_val /\ data[c] = missing_val
    /\ \E c \in CellsOf(shape) : data_in[c] = missing_val /\ data[c] # missing_val
    /\ \E c \in CellsOf(shape) : c \notin discard /\ data_in[c] # missing_val

\* C11: discard_and_fill never writes to its discard and fill arguments: at
\* every point of the call, and so at the return and at the convergence
\* error, both masks are as they were at call entry.
C11_MasksUnchanged ==
    discard = discard_in /\ fill = fill_in

C11_Witness ==
    /\ pc = "exit" /\ loops >= 2
    /\ discard # {} /\ discard = discard_in
    /\ fill = fill_in
    /\ \E c \in fill : data[c] # missing_val
    /\ \E c \in fill : data[c] = missing_val

\* ====================================================================
\* Properties of neighbours and neighbours_z (checked under SpecNbr)
\* ====================================================================

\* The cell one step from c along axis ax (1: z, 2: y, 3: x) in direction d
\* (-1 or 1) when that cell is in the grid, and c itself on the edge.
StepOrSelf(c, ax, d) ==
    LET t == [c EXCEPT ![ax] = c[ax] + d]
    IN  IF t \in CellsOf(shape) THEN t ELSE c

\* The returned value array v and flag array f describe the step (ax, d).
ShiftIs(v, f, ax, d) ==
    \A c \in CellsOf(shape) :
        /\ v[c] = data_in[StepOrSelf(c, ax, d)]
        /\ f[c] \in {0, 1}
        /\ f[c] = 1 <=> v[c] # missing_val

\* C12: neighbours returns for every cell the value of the in-grid cell one
\* step west, east, south and north (its own value on the corresponding edge),
\* a flag per direction that is 1 exactly when that value differs from the
\* sentinel, and the sum of the four flags, in 0..4; neighbours_z does the
\* same one level up and down with a count in 0..2; the input is not modified.
C12_NeighboursContract ==
    /\ data = data_in
    /\ pc \in {"nbrz_call", "returned"} =>
          LET r == ret_neighbours
          IN  /\ ShiftIs(r[1], r[5], 3, -1)
              /\ ShiftIs(r[2], r[6], 3, 1)
              /\ ShiftIs(r[3], r[7], 2, -1)
              /\ ShiftIs(r[4], r[8], 2, 1)
              /\ \A c \in CellsOf(shape) :
                     /\ r[9][c] = r[5][c] + r[6][c] + r[7][c] + r[8][c]
                     /\ r[9][c] \in 0 .. 4
    /\ pc = "returned" =>
          LET r == ret_neighbours_z
          IN  /\ ShiftIs(r[1], r[3], 1, -1)
              /\ ShiftIs(r[2], r[4], 1, 1)
              /\ \A c \in CellsOf(shape) :
                     /\ r[5][c] = r[3][c] + r[4][c]
                     /\ r[5][c] \in 0 .. 2

C12_Witness ==
    /\ pc = "returned"
    /\ shape[1] > 1 /\ shape[3] > 1
    /\ \E c \in CellsOf(shape) :
          /\ data_in[c] # missing_val
          /\ ret_neighbours[1][c] = missing_val /\ ret_neighbours[5][c] = 0
          /\ ret_neighbours[9][c] = 3
          /\ ret_neighbours_z[5][c] = 1
    /\ \E c \in CellsOf(shape) : ret_neighbours[9][c] = 0 /\ ret_neighbours_z[5][c] = 0

\* ====================================================================
\* Properties of interp_slice_helper (checked under SpecISH)
\* ====================================================================

\* The first and the last sample of the axis.
AxisFirst == data[1]
AxisLast == data[Len(data)]

\* C13: for a strictly increasing axis A and A[0] < val0 < A[-1] the call
\* returns, with i2 the first index whose sample is greater than val0,
\* i1 = i2 - 1, c1 + c2 = 1 and c1*A[i1] + c2*A[i2] = val0.
C13_BracketAndWeights ==
    (RLess(AxisFirst, val0) /\ RLess(val0, AxisLast)) =>
        /\ pc \in {"ish_find", "ish_branch", "returned"}
        /\ pc = "returned" =>
              /\ i2 \in 1 .. Len(data) - 1
              /\ RGreater(At(data, i2), val0)
              /\ \A k \in 0 .. i2 - 1 : ~RGreater(At(data, k), val0)
              /\ i1 = i2 - 1
              /\ RAdd(c1, c2) = Rat(1)
              /\ RAdd(RMul(c1, At(data, i1)), RMul(c2, At(data, i2))) = val0

C13_Witness ==
    /\ pc = "returned"
    /\ RLess(AxisFirst, val0) /\ RLess(val0, AxisLast)
    /\ Len(data) = MaxAxisLen /\ i2 = 2
    /\ c1 # c2 /\ c1 # Rat(0) /\ c2 # Rat(0)

\* C14 (as claimed): with lon=True and a target in the periodic gap beyond the
\* last sample (A[-1] < val0 < A[0] + 360) the call returns i1 = last index,
\* i2 = 0 and weights with c1 + c2 = 1 that blend the last sample, shifted by
\* -360, and the first sample.
C14_WrapBeyondLastSample ==
    (lon /\ RLess(AxisLast, val0) /\ RLess(val0, RAdd(AxisFirst, Rat(LonPeriod)))) =>
        /\ pc \in {"ish_find", "ish_branch", "returned"}
        /\ pc = "returned" =>
              /\ i1 = Len(data) - 1
              /\ i2 = 0
              /\ RAdd(c1, c2) = Rat(1)

\* C15 (as claimed): a target outside the axis range to which no wraparound
\* rule applies (lon=False and val0 < A[0]; lon=False and val0 > A[-1];
\* lon=True and val0 <= A[-1] - 360) ends in the out-of-bounds error of
\* lines 283-284; no result is returned and nothing else ends the call.
C15_OutOfRangeIsOutOfBoundsError ==
    (\/ ~lon /\ RLess(val0, AxisFirst)
     \/ ~lon /\ RGreater(val0, AxisLast)
     \/ lon /\ ~RLess(RSub(AxisLast, Rat(LonPeriod)), val0)) =>
        pc \in {"ish_find", "ish_branch", "exit"}

\* ====================================================================
\* Properties of interp_reg (checked under SpecReg)
\* ====================================================================

\* The coordinate x lies outside the range of the increasing axis.
OutsideAxis(x, axis) == RLess(x, axis[1]) \/ RGreater(x, axis[Len(axis)])

\* The target point with index tuple p has a latitude, a longitude or (for a
\* 3D field) a depth outside the range of the source axis: the last two
\* entries of p index target_lat and target_lon, the first of three target_z.
OutsideSource(p) ==
    \/ OutsideAxis(target_lat[p[Len(p) - 1]], source_lat)
    \/ OutsideAxis(target_lon[p[Len(p)]], source_lon)
    \/ /\ dim = 3
       /\ \/ RGreater(target_z[p[1]], source_z[1])
          \/ RLess(target_z[p[1]], source_z[Len(source_z)])

\* C16: interp_reg returns exactly fill_value at every target point that has
\* a coordinate (latitude, longitude, or in 3D depth) outside the range of
\* the corresponding source axis.
C16_OutsideGetsFillValue ==
    pc = "returned" =>
        \A p \in DOMAIN data_interp : OutsideSource(p) => data_interp[p] = fill_value

C16_Witness ==
    /\ pc = "returned" /\ dim = 3 /\ Len(target_lon) = 2
    /\ \E p \in DOMAIN data_interp :
          /\ ~OutsideAxis(target_lat[p[2]], source_lat)
          /\ OutsideAxis(target_lon[p[3]], source_lon)
          /\ ~OutsideAxis(target_lon[p[3]], source_lat)
          /\ data_interp[p] = fill_value
    /\ \E p \in DOMAIN data_interp : ~OutsideSource(p) /\ data_interp[p] # fill_value

\* C17: interp_reg called with dim other than 2 or 3 ends in the usage error
\* (sys.exit() of line 229) and returns no array.
C17_BadDimIsUsageError ==
    (dim # 2 /\ dim # 3) => (pc \in {"reg_build", "exit"} /\ data_interp = <<>>)

C17_Witness ==
    pc = "exit" /\ dim = 4 /\ data_interp = <<>>

\* ====================================================================
\* Properties of interp_grid (checked under SpecIG)
\* ====================================================================

\* The interpolation step has run (the re-masking may or may not have).
Interpolated == pc \in {"ig_mask", "returned"}

\* What an input cell counts as: 0 when masked, its value otherwise.
Counted(c) == IF mask[c] THEN Rat(0) ELSE data_in[c]

\* The cell one step from c along axis ax (2: row axis, 3: column axis).
NextAlong(c, ax) == [c EXCEPT ![ax] = c[ax] + 1]

\* out is the two-point average of the input along axis ax, the last index
\* of that axis copied.
MidpointAlong(out, ax) ==
    \A c \in CellsOf(shape) :
        out[c] = IF c[ax] < shape[ax] - 1
                 THEN RMul(<<1, 2>>, RAdd(Counted(c), Counted(NextAlong(c, ax))))
                 ELSE Counted(c)

\* C18: once interp_grid has interpolated (before the re-masking changes
\* anything), for u->t every column but the last holds half the sum of the
\* input column and the next and the last column the input's last column; for
\* v->t the same along the rows; masked input cells count as 0; the output
\* has the shape of the input.
C18_MidpointAveraging ==
    Interpolated =>
        /\ DOMAIN data_interp = DOMAIN data_in
        /\ (gtype_in = "u" /\ gtype_out = "t") => MidpointAlong(data_interp, 3)
        /\ (gtype_in = "v" /\ gtype_out = "t") => MidpointAlong(data_interp, 2)

C18_Witness ==
    /\ pc = "ig_mask" /\ gtype_in = "u" /\ shape[3] = MaxGridCells
    /\ mask[<<0, 0, 1>>] /\ ~mask[<<0, 0, 0>>] /\ ~mask[<<0, 0, 2>>]
    /\ data_interp[<<0, 0, 0>>] = Half(data_in[<<0, 0, 0>>])
    /\ data_interp[<<0, 0, 2>>] = data_in[<<0, 0, 2>>]

\* C19: a u-grid field that is 1 in every cell, none of them masked, comes out
\* of the interpolation step as 1 in every cell, the last column included.
C19_OnesStayOnes ==
    (Interpolated /\ gtype_in = "u" /\ gtype_out = "t"
        /\ \A c \in CellsOf(shape) : ~mask[c] /\ data_in[c] = Rat(1)) =>
        \A c \in CellsOf(shape) : data_interp[c] = Rat(1)

C19_Witness ==
    /\ pc = "ig_mask" /\ gtype_in = "u" /\ gtype_out = "t"
    /\ shape[3] = MaxGridCells
    /\ \A c \in CellsOf(shape) : ~mask[c] /\ data_in[c] = Rat(1) /\ data_interp[c] = Rat(1)

\* C20: for every pair (gtype_in, gtype_out) other than (u, t) and (v, t) the
\* call ends in a usage error (sys.exit()) and no array is built or returned.
C20_UnsupportedPairIsUsageError ==
    ~((gtype_in = "u" /\ gtype_out = "t") \/ (gtype_in = "v" /\ gtype_out = "t")) =>
        (pc \in {"ig_start", "ig_interp", "exit"} /\ data_interp = <<>>)

C20_Witness ==
    /\ pc = "exit" /\ gtype_in = "u" /\ gtype_out = "v"
    /\ data_tmp # <<>> /\ data_interp = <<>>

\* C21: interp_grid takes a field as depth-dependent exactly when its rank is
\* 4 with time_dependent or 3 without; with mask_shelf on a depth-dependent
\* field the call ends in the usage error before the field to interpolate is
\* prepared, interpolated or masked, and with mask_shelf on a field that is
\* not depth-dependent this error is not raised: the call gets past the test
\* and can only end in the error of an unsupported pair of grid types or
\* return.
C21_DepthDependentShelfError ==
    LET dd == (ndim = 4 /\ time_dependent) \/ (ndim = 3 /\ ~time_dependent)
        supported == gtype_out = "t" /\ gtype_in \in {"u", "v"}
    IN  /\ pc # "ig_start" => depth_dependent = dd
        /\ (mask_shelf /\ dd) =>
              (pc \in {"ig_start", "exit"} /\ data_tmp = <<>> /\ data_interp = <<>>)
        /\ (mask_shelf /\ ~dd /\ pc = "exit") => (data_tmp # <<>> /\ ~supported)

C21_Witness ==
    /\ pc = "exit" /\ mask_shelf /\ depth_dependent
    /\ ndim = 4 /\ time_dependent
    /\ gtype_in = "u" /\ gtype_out = "t"
    /\ data_tmp = <<>>

\* ====================================================================
\* Properties of interp_topo (checked under SpecTopo)
\* ====================================================================

\* The cells of the output with a value assigned.
TopoDone == {q \in DOMAIN data_interp : data_interp[q] # <<>>}

\* The smaller and the larger of two coordinates.
Lower(a, b) == IF RLess(b, a) THEN b ELSE a
Upper(a, b) == IF RLess(b, a) THEN a ELSE b

\* The edge coordinates of the cell q = (j, i): x at (j, i) and (j, i + 1),
\* y at (j, i) and (j + 1, i).
CellX(q) == <<x_interp[q], x_interp[<<q[1], q[2] + 1>>]>>
CellY(q) == <<y_interp[q], y_interp[<<q[1] + 1, q[2]>>]>>

\* a <= v <= b
Within(v, a, b) == ~RLess(v, a) /\ ~RLess(b, v)

\* The cell q lies inside the extent of the source axes.
InsideSource(q) ==
    /\ \A k \in 1 .. 2 : Within(CellX(q)[k], frame.x[1], frame.x[Len(frame.x)])
    /\ \A k \in 1 .. 2 : Within(CellY(q)[k], frame.y[1], frame.y[Len(frame.y)])

ConstantSource == \A q \in DOMAIN data : data[q] = data[<<1, 1>>]

\* C22: when the source field equals one value c everywhere, every output
\* cell lying inside the source extent holds c, for every n_subgrid >= 1.
C22_ConstantStaysConstant ==
    (pc \in {"topo_loop", "returned"} /\ ConstantSource) =>
        /\ \A q \in TopoDone : InsideSource(q) => data_interp[q] = data[<<1, 1>>]
        /\ pc = "returned" => TopoDone = DOMAIN data_interp

C22_Witness ==
    /\ pc = "returned" /\ ConstantSource
    /\ n_subgrid = MaxSubgrid /\ num_j = 2 /\ num_i = 2
    /\ \A q \in DOMAIN data_interp : InsideSource(q) /\ data_interp[q] = Rat(2)
    /\ \E q \in DOMAIN data_interp : RLess(CellX(q)[2], CellX(q)[1])

\* The k-th of n centres of the regular subdivision of the interval from lo to hi.
CentreOf(lo, hi, k, n) == RAdd(lo, ROver(RTimes(RSub(hi, lo), 2 * k - 1), 2 * n))

\* C25: for each cell (j, i) the interpolant is evaluated on the n_subgrid x
\* n_subgrid grid of the centres of a regular subdivision of the interval
\* between the cell's own edge coordinates, taken in increasing order
\* whichever way the edges are ordered; every point lies strictly inside the
\* cell, the value of the cell is the mean of the interpolant over those
\* points (so it is fixed by the cell's own edges), and the output has one
\* row and one column fewer than the edge arrays.
C25_SubgridSampling ==
    pc \in {"topo_loop", "returned"} =>
        /\ DOMAIN data_interp =
              (0 .. ArrayShape(y_interp)[1] - 2) \X (0 .. ArrayShape(x_interp)[2] - 2)
        /\ \A q \in TopoDone :
              LET xlo == Lower(CellX(q)[1], CellX(q)[2])
                  xhi == Upper(CellX(q)[1], CellX(q)[2])
                  ylo == Lower(CellY(q)[1], CellY(q)[2])
                  yhi == Upper(CellY(q)[1], CellY(q)[2])
                  pts == (1 .. n_subgrid) \X (1 .. n_subgrid)
                  at == [e \in pts |->
                           RectBivariateSpline(frame.y, frame.x, data,
                                               CentreOf(ylo, yhi, e[1], n_subgrid),
                                               CentreOf(xlo, xhi, e[2], n_subgrid))]
              IN  /\ Len(x_vals[q]) = n_subgrid /\ Len(y_vals[q]) = n_subgrid
                  /\ \A k \in 1 .. n_subgrid :
                        /\ x_vals[q][k] = CentreOf(xlo, xhi, k, n_subgrid)
                        /\ y_vals[q][k] = CentreOf(ylo, yhi, k, n_subgrid)
                        /\ RLess(xlo, x_vals[q][k]) /\ RLess(x_vals[q][k], xhi)
                        /\ RLess(ylo, y_vals[q][k]) /\ RLess(y_vals[q][k], yhi)
                  /\ data_interp[q] = MeanOver(at, pts)

C25_Witness ==
    /\ pc = "returned" /\ ~ConstantSource
    /\ n_subgrid = MaxSubgrid /\ num_j = 2 /\ num_i = 2
    /\ \E q \in DOMAIN data_interp :
          /\ RLess(CellX(q)[2], CellX(q)[1]) /\ RLess(CellY(q)[2], CellY(q)[1])
          /\ x_interp[<<q[1] + 1, q[2]>>] # x_interp[q]
    /\ \E q, r \in DOMAIN data_interp : data_interp[q] # data_interp[r]

\* ====================================================================
\* Properties of interp_bdry (checked under SpecBdry)
\* ====================================================================

\* C23 (as claimed): with depth_dependent set and with it unset the call
\* completes, and the array it returns is 0 in every cell where target_hfac
\* is 0.
C23_BdryCompletes ==
    /\ pc \in {"bdry_start", "bdry_z", "returned"}
    /\ pc = "returned" =>
          \A q \in DOMAIN target_hfac : target_hfac[q] = Rat(0) => data_interp[q] = Rat(0)

\* ====================================================================
\* Properties of two calls of discard_and_fill (checked under SpecPair)
\* ====================================================================

\* C24: two calls with the same discard and fill masks whose fields differ
\* only at discarded cells end the same way and, when they return, return
\* identical fields. Every field is compared with the field that holds
\* OtherValue in all its discarded cells, so any two fields that differ only
\* at discarded cells are compared through it.
C24_DiscardedValuesDoNotInfluence ==
    (FirstEnded /\ frame.pc \in {"returned", "exit"}) =>
        /\ frame.pc = pc
        /\ pc = "returned" => frame.data = data

C24_Witness ==
    /\ pc = "returned" /\ frame.pc = "returned" /\ loops >= 1
    /\ \E c \in discard : data_in[c] = missing_val /\ frame.data_in[c] = OtherValue
    /\ \E c \in discard : data_in[c] # missing_val /\ frame.data_in[c] # data_in[c]
    /\ frame.data = data

\* ====================================================================
\* Properties of remove_isolated_cells (checked under SpecRIC)
\* ====================================================================

\* C26 (as claimed): the call sets to mask_val every cell that differs from
\* mask_val while all its in-grid west/east/south/north neighbours equal
\* mask_val, on the edge and in the corner of the grid as elsewhere, and
\* leaves every other cell as it was.
C26_IsolatedCellsRemoved ==
    pc = "returned" =>
        \A c \in CellsOf(shape) :
            data[c] = IF /\ data_in[c] # missing_val
                         /\ \A n \in HorizontalNbrs(c, shape) : data_in[n] = missing_val
                      THEN missing_val ELSE data_in[c]

\* ====================================================================
\* Further properties of extend_into_mask (checked under SpecEIM)
\* ====================================================================

\* C27: a cell that is not missing keeps its value: a cell valid at entry
\* (and not under the mask of a MaskedArray argument) holds its entry value
\* in every later state, a cell that holds a value at the start of an
\* iteration - valid at entry or filled by an earlier iteration - holds it
\* through that iteration, a cell the horizontal fill gave a value is not
\* rewritten by the vertical step, and no cell turns missing.
C27_ValidCellsKeepTheirValue ==
    /\ \A c \in CellsOf(shape) :
          (data_in[c] # missing_val /\ ~mask[c]) => data[c] = data_in[c]
    /\ HorizontalDone =>
          \A c \in CellsOf(shape) :
              /\ data_start[c] # missing_val => data[c] = data_start[c]
              /\ data_mid[c] # missing_val => data[c] = data_mid[c]
              /\ data[c] = missing_val => (data_mid[c] = missing_val /\ data_start[c] = missing_val)

C27_Witness ==
    /\ pc = "returned" /\ iter = 2 /\ use_3d
    /\ \E c \in CellsOf(shape) : data_in[c] # missing_val /\ data[c] = data_in[c]
    /\ \E c \in CellsOf(shape) :
          data_in[c] = missing_val /\ data_start[c] # missing_val /\ data[c] = data_start[c]
    /\ \E c \in filled_h \cup filled_z : data_start[c] = missing_val /\ data[c] # missing_val

\* C28 (as claimed): in an iteration with use_3d=True every value written,
\* by the horizontal fill or by the vertical fallback, is the mean of
\* neighbours that were valid at the start of the iteration.
C28_OnlyStartOfIterationValues ==
    (use_3d /\ IterationDone) =>
        /\ \A c \in filled_h :
              LET V == ValidIn(data_start, HorizontalNbrs(c, shape), missing_val)
              IN  V # {} /\ data_mid[c] = MeanOver(data_start, V)
        /\ \A c \in filled_z :
              LET V == ValidIn(data_start, VerticalNbrs(c, shape), missing_val)
              IN  V # {} /\ data[c] = MeanOver(data_start, V)

\* C28 (amended): the horizontal fill writes means of neighbours valid at the
\* start of the iteration; the vertical fallback writes means of the
\* vertical neighbours that are valid once the horizontal fill of the same
\* iteration is done - those valid at the start and those the horizontal
\* fill has just filled - and never reads a value the vertical fallback
\* itself wrote in that iteration (stated where the loop is back at its head
\* after the iteration).
C28_VerticalReadsAfterHorizontal ==
    (use_3d /\ pc = "eim_loop" /\ iter > 0) =>
        /\ \A c \in filled_h :
              LET V == ValidIn(data_start, HorizontalNbrs(c, shape), missing_val)
              IN  V # {} /\ data_mid[c] = MeanOver(data_start, V)
        /\ \A c \in filled_z :
              LET V == ValidIn(data_mid, VerticalNbrs(c, shape), missing_val)
              IN  /\ V # {} /\ data[c] = MeanOver(data_mid, V)
                  /\ \A d \in V : data_start[d] # missing_val \/ d \in filled_h
                  /\ V \cap filled_z = {}

C28_Witness ==
    /\ use_3d /\ IterationDone
    /\ \E c \in filled_z :
          \E d \in VerticalNbrs(c, shape) :
              /\ data_start[d] = missing_val /\ d \in filled_h
              /\ data[c] = data_mid[d] /\ data[c] # missing_val
    /\ \E c \in filled_z :
          \A d \in ValidIn(data_mid, VerticalNbrs(c, shape), missing_val) :
              data_start[d] # missing_val

\* ====================================================================
\* Further properties of interp_slice_helper (checked under SpecISH)
\* ====================================================================

\* C29: with lon=True and a target in the periodic gap before the first
\* sample (A[-1] - 360 < val0 < A[0]) the call returns i1 = last index,
\* i2 = 0 and weights with c1 + c2 = 1, 0 < c2 < 1 and
\* c1*(A[i1] - 360) + c2*A[i2] = val0.
C29_WrapBeforeFirstSample ==
    (lon /\ RLess(RSub(AxisLast, Rat(LonPeriod)), val0) /\ RLess(val0, AxisFirst)) =>
        /\ pc \in {"ish_find", "ish_branch", "returned"}
        /\ pc = "returned" =>
              /\ i1 = Len(data) - 1
              /\ i2 = 0
              /\ RAdd(c1, c2) = Rat(1)
              /\ RLess(Rat(0), c2) /\ RLess(c2, Rat(1))
              /\ RAdd(RMul(c1, RSub(At(data, i1), Rat(LonPeriod))),
                      RMul(c2, At(data, i2))) = val0

C29_Witness ==
    /\ pc = "returned" /\ lon
    /\ Len(data) = MaxAxisLen
    /\ AxisFirst = Rat(-179) /\ AxisLast = Rat(179)
    /\ RLess(Rat(-181), val0) /\ RLess(val0, Rat(-179))
    /\ i1 = Len(data) - 1 /\ i2 = 0 /\ c1 # c2

\* C30 (as claimed): for a strictly increasing axis and every target in the
\* closed range A[0] <= val0 <= A[-1], the first and the last sample
\* included, the call returns without an error, with 0 <= c1 <= 1 and
\* 0 <= c2 <= 1.
C30_ClosedRangeReturns ==
    (~RLess(val0, AxisFirst) /\ ~RLess(AxisLast, val0)) =>
        /\ pc \in {"ish_find", "ish_branch", "returned"}
        /\ pc = "returned" =>
              /\ ~RLess(c1, Rat(0)) /\ ~RLess(Rat(1), c1)
              /\ ~RLess(c2, Rat(0)) /\ ~RLess(Rat(1), c2)

====
